---- MODULE Spec2Model ----
(***************************************************************************)
(* Model of the lv03 crate (src/src/lib.rs): the value types Wgs84, Lv03   *)
(* and Lv95, the validated constructors, the projection formulas and the   *)
(* frame shift, over IEEE-754 binary64 arithmetic as Rust's f64 computes   *)
(* it (round to nearest, ties to even; no fused multiply-add).             *)
(*                                                                         *)
(* An f64 is the record [k, s, m, e]:                                      *)
(*   k = "fin": the value (-1)^s * m * 2^e, m a natural number below 2^53  *)
(*              held as a sequence of 15-bit limbs, least significant      *)
(*              first, without leading zero limbs; m >= 2^52 unless        *)
(*              e = -1074 (subnormal or zero), so each value has one form  *)
(*   k = "inf": the infinity of sign s        k = "nan": a NaN             *)
(* An Option<T> is <<>> (None) or <<v>> (Some(v)).                         *)
(***************************************************************************)
EXTENDS Integers, Sequences, FiniteSets, TLC

(***************************************************************************)
(* Natural numbers of any size, for the 53-bit significands and their      *)
(* 106-bit products.                                                       *)
(***************************************************************************)
LimbBits == 15
Base == 32768

RECURSIVE Pow2(_)
Pow2(k) == IF k = 0 THEN 1 ELSE 2 * Pow2(k - 1)

Limb(a, i) == IF i <= Len(a) THEN a[i] ELSE 0

RECURSIVE BN_Trim(_)
BN_Trim(a) ==
    IF a = <<>> THEN a
    ELSE IF a[Len(a)] = 0 THEN BN_Trim(SubSeq(a, 1, Len(a) - 1))
    ELSE a

RECURSIVE BN_FromNat(_)
BN_FromNat(n) == IF n = 0 THEN <<>> ELSE <<n % Base>> \o BN_FromNat(n \div Base)

RECURSIVE BN_AddFrom(_, _, _, _)
BN_AddFrom(a, b, i, c) ==
    IF i > Len(a) /\ i > Len(b)
    THEN (IF c = 0 THEN <<>> ELSE <<c>>)
    ELSE LET s == Limb(a, i) + Limb(b, i) + c
         IN  <<s % Base>> \o BN_AddFrom(a, b, i + 1, s \div Base)

BN_Add(a, b) == BN_AddFrom(a, b, 1, 0)

\* a - b for a >= b
RECURSIVE BN_SubFrom(_, _, _, _)
BN_SubFrom(a, b, i, c) ==
    IF i > Len(a) THEN <<>>
    ELSE LET s == Limb(a, i) - Limb(b, i) - c
         IN  IF s < 0
             THEN <<s + Base>> \o BN_SubFrom(a, b, i + 1, 1)
             ELSE <<s>> \o BN_SubFrom(a, b, i + 1, 0)

BN_Sub(a, b) == BN_Trim(BN_SubFrom(a, b, 1, 0))

\* -1, 0, 1 as a < b, a = b, a > b (both without leading zero limbs)
RECURSIVE BN_CmpFrom(_, _, _)
BN_CmpFrom(a, b, i) ==
    IF i = 0 THEN 0
    ELSE IF a[i] < b[i] THEN -1
    ELSE IF a[i] > b[i] THEN 1
    ELSE BN_CmpFrom(a, b, i - 1)

BN_Cmp(a, b) ==
    IF Len(a) < Len(b) THEN -1
    ELSE IF Len(a) > Len(b) THEN 1
    ELSE BN_CmpFrom(a, b, Len(a))

\* a * d for one limb d
RECURSIVE BN_MulLimbFrom(_, _, _, _)
BN_MulLimbFrom(a, d, i, c) ==
    IF i > Len(a)
    THEN (IF c = 0 THEN <<>> ELSE <<c>>)
    ELSE LET s == a[i] * d + c
         IN  <<s % Base>> \o BN_MulLimbFrom(a, d, i + 1, s \div Base)

BN_MulLimb(a, d) == IF d = 0 THEN <<>> ELSE BN_MulLimbFrom(a, d, 1, 0)

Zeros(n) == [i \in 1..n |-> 0]

RECURSIVE BN_MulFrom(_, _, _)
BN_MulFrom(a, b, i) ==
    IF i > Len(b) THEN <<>>
    ELSE BN_Add(BN_MulLimb(a, b[i]), <<0>> \o BN_MulFrom(a, b, i + 1))

BN_Mul(a, b) == IF a = <<>> \/ b = <<>> THEN <<>> ELSE BN_Trim(BN_MulFrom(a, b, 1))

\* a * 2^k
BN_Shl(a, k) ==
    IF a = <<>> THEN <<>>
    ELSE Zeros(k \div LimbBits) \o BN_MulLimb(a, Pow2(k % LimbBits))

\* floor(a / d) for one limb d, from the most significant limb down
RECURSIVE BN_DivLimbFrom(_, _, _, _)
BN_DivLimbFrom(a, d, i, r) ==
    IF i = 0 THEN <<>>
    ELSE LET t == r * Base + a[i]
         IN  BN_DivLimbFrom(a, d, i - 1, t % d) \o <<t \div d>>

BN_DivLimb(a, d) == BN_Trim(BN_DivLimbFrom(a, d, Len(a), 0))

\* floor(a / 2^k)
BN_Shr(a, k) ==
    IF k \div LimbBits >= Len(a) THEN <<>>
    ELSE BN_DivLimb(SubSeq(a, (k \div LimbBits) + 1, Len(a)), Pow2(k % LimbBits))

\* a mod 2^k
BN_Low(a, k) ==
    IF k \div LimbBits >= Len(a) THEN a
    ELSE BN_Trim(SubSeq(a, 1, k \div LimbBits)
                 \o <<a[(k \div LimbBits) + 1] % Pow2(k % LimbBits)>>)

RECURSIVE BitLenNat(_)
BitLenNat(n) == IF n = 0 THEN 0 ELSE 1 + BitLenNat(n \div 2)

BN_BitLen(a) == IF a = <<>> THEN 0 ELSE LimbBits * (Len(a) - 1) + BitLenNat(a[Len(a)])

BN_IsOdd(a) == a # <<>> /\ a[1] % 2 = 1

\* The largest q <= qh with q * d <= r, for qh at most 2 above it
RECURSIVE BN_FixDigit(_, _, _)
BN_FixDigit(r, d, qh) ==
    IF qh > 0 /\ BN_Cmp(BN_MulLimb(d, qh), r) > 0
    THEN BN_FixDigit(r, d, qh - 1)
    ELSE qh

\* floor(r / d) for r < d * Base, d with its top bit set in its top limb: the
\* estimate from the two top limbs of r is at most 2 too large
BN_Digit(r, d) ==
    IF Len(r) < Len(d) THEN 0
    ELSE IF (Limb(r, Len(d) + 1) * Base + r[Len(d)]) \div d[Len(d)] > Base - 1
    THEN BN_FixDigit(r, d, Base - 1)
    ELSE BN_FixDigit(r, d, (Limb(r, Len(d) + 1) * Base + r[Len(d)]) \div d[Len(d)])

\* Long division of the limbs i..1 of n by d (top bit set), r the remainder
\* so far: [q, r]
BN_PutDigit(rest, qd) == [q |-> rest.q \o <<qd>>, r |-> rest.r]

RECURSIVE BN_DivLimbs(_, _, _, _)
BN_DivStep(n, d, i, r1, qd) ==
    BN_PutDigit(BN_DivLimbs(n, d, i - 1, BN_Sub(r1, BN_MulLimb(d, qd))), qd)

BN_DivLimb1(n, d, i, r1) == BN_DivStep(n, d, i, r1, BN_Digit(r1, d))

BN_DivLimbs(n, d, i, r) ==
    IF i = 0 THEN [q |-> <<>>, r |-> r]
    ELSE BN_DivLimb1(n, d, i, BN_Trim(<<n[i]>> \o r))

\* floor(n / d) and n mod d for d > 0, after both are shifted left sh bits
\* so that the top limb of d has its top bit set
BN_DivModShifted(n, d, sh) == BN_DivLimbs(n, d, Len(n), <<>>)

BN_Unshift(qr, sh) == [q |-> BN_Trim(qr.q), r |-> BN_Shr(qr.r, sh)]

BN_DivModBy(n, d, sh) == BN_Unshift(BN_DivModShifted(BN_Shl(n, sh), BN_Shl(d, sh), sh), sh)

\* floor(n / d) and n mod d for d > 0
BN_DivMod(n, d) == BN_DivModBy(n, d, LimbBits - BitLenNat(d[Len(d)]))

(***************************************************************************)
(* IEEE-754 binary64.                                                      *)
(***************************************************************************)
Prec == 53
EMin == 0 - 1074
EMax == 971

Fin(s, m, e) == [k |-> "fin", s |-> s, m |-> m, e |-> e]
Inf(s) == [k |-> "inf", s |-> s, m |-> <<>>, e |-> 0]
NaN == [k |-> "nan", s |-> 0, m |-> <<>>, e |-> 0]
Zero(s) == Fin(s, <<>>, EMin)

IsNaN(a) == a.k = "nan"
IsInf(a) == a.k = "inf"
IsFin(a) == a.k = "fin"
IsZero(a) == a.k = "fin" /\ a.m = <<>>

F64_Pack(s, m, e) == IF e > EMax THEN Inf(s) ELSE Fin(s, m, e)

\* A significand that rounding carried to Prec + 1 bits moves up one exponent
F64_Renorm(s, m, e, len) ==
    IF len > Prec THEN F64_Pack(s, BN_Shr(m, 1), e + 1) ELSE F64_Pack(s, m, e)

F64_Bump(s, q, e, up) ==
    IF up THEN F64_Renorm(s, BN_Add(q, <<1>>), e, BN_BitLen(BN_Add(q, <<1>>)))
    ELSE F64_Pack(s, q, e)

\* Ties to even: up when the discarded part is above half a unit (c > 0), or
\* is half a unit (c = 0) and the kept part is odd or something lies below
F64_RoundsUp(c, sticky, q) == c > 0 \/ (c = 0 /\ (sticky \/ BN_IsOdd(q)))

\* (-1)^s * (m + t) * 2^e rounded to the exponent e1, len the bit length of m
F64_RoundAt(s, m, e, sticky, len, e1) ==
    IF e1 <= e THEN F64_Pack(s, BN_Shl(m, e - e1), e1)
    ELSE IF e1 - e > len THEN Zero(s)
    ELSE F64_Bump(s, BN_Shr(m, e1 - e), e1,
                  F64_RoundsUp(BN_Cmp(BN_Low(m, e1 - e), BN_Shl(<<1>>, e1 - e - 1)),
                               sticky, BN_Shr(m, e1 - e)))

\* The exponent of the f64 that holds a len-bit significand of exponent e
F64_Exponent(e, len) == IF e + len - Prec > EMin THEN e + len - Prec ELSE EMin

\* The f64 nearest to (-1)^s * (m + t) * 2^e, ties to even, where 0 < t < 1 if
\* sticky and t = 0 otherwise; a sticky m has at least Prec + 2 bits.
F64_Round(s, m, e, sticky) ==
    IF m = <<>> THEN Zero(s)
    ELSE F64_RoundAt(s, m, e, sticky, BN_BitLen(m), F64_Exponent(e, BN_BitLen(m)))

\* The f64 nearest to (-1)^s * (n / d) * 2^e for naturals n > 0, d > 0, from
\* the quotient and remainder qr of n * 2^k by d
F64_QuotOf(s, qr, e) == F64_Round(s, qr.q, e, qr.r # <<>>)

F64_Quot(s, n, d, e) ==
    IF BN_BitLen(d) + Prec + 3 > BN_BitLen(n)
    THEN F64_QuotOf(s, BN_DivMod(BN_Shl(n, BN_BitLen(d) + Prec + 3 - BN_BitLen(n)), d),
                    e - (BN_BitLen(d) + Prec + 3 - BN_BitLen(n)))
    ELSE F64_QuotOf(s, BN_DivMod(n, d), e)

F64_Neg(a) == IF IsNaN(a) THEN a ELSE [a EXCEPT !.s = 1 - a.s]

\* (-1)^sa * ma * 2^e + (-1)^sb * mb * 2^e for sa # sb, c comparing ma with mb
F64_Diff(sa, ma, sb, mb, e, c) ==
    IF c = 0 THEN Zero(0)
    ELSE F64_Round(IF c > 0 THEN sa ELSE sb,
                   IF c > 0 THEN BN_Sub(ma, mb) ELSE BN_Sub(mb, ma), e, FALSE)

\* (-1)^sa * ma * 2^e + (-1)^sb * mb * 2^e
F64_AddAligned(sa, ma, sb, mb, e) ==
    IF sa = sb THEN F64_Round(sa, BN_Add(ma, mb), e, FALSE)
    ELSE F64_Diff(sa, ma, sb, mb, e, BN_Cmp(ma, mb))

\* a + b for finite non-zero a, b with a.e >= b.e: an addend more than
\* Prec + 11 binary places below a leaves a as it is
F64_AddOrdered(a, b) ==
    IF a.e - b.e > Prec + 11 THEN a
    ELSE F64_AddAligned(a.s, BN_Shl(a.m, a.e - b.e), b.s, b.m, b.e)

F64_Add(a, b) ==
    IF IsNaN(a) \/ IsNaN(b) THEN NaN
    ELSE IF IsInf(a) THEN (IF IsInf(b) /\ a.s # b.s THEN NaN ELSE a)
    ELSE IF IsInf(b) THEN b
    ELSE IF IsZero(a) /\ IsZero(b) THEN Zero(IF a.s = 1 /\ b.s = 1 THEN 1 ELSE 0)
    ELSE IF IsZero(a) THEN b
    ELSE IF IsZero(b) THEN a
    ELSE F64_AddOrdered(IF a.e >= b.e THEN a ELSE b, IF a.e >= b.e THEN b ELSE a)

F64_Sub(a, b) == F64_Add(a, F64_Neg(b))

F64_Mul(a, b) ==
    IF IsNaN(a) \/ IsNaN(b) THEN NaN
    ELSE IF IsInf(a) \/ IsInf(b)
    THEN (IF IsZero(a) \/ IsZero(b) THEN NaN ELSE Inf((a.s + b.s) % 2))
    ELSE F64_Round((a.s + b.s) % 2, BN_Mul(a.m, b.m), a.e + b.e, FALSE)

F64_Div(a, b) ==
    IF IsNaN(a) \/ IsNaN(b) THEN NaN
    ELSE IF IsInf(a) THEN (IF IsInf(b) THEN NaN ELSE Inf((a.s + b.s) % 2))
    ELSE IF IsInf(b) THEN Zero((a.s + b.s) % 2)
    ELSE IF IsZero(b) THEN (IF IsZero(a) THEN NaN ELSE Inf((a.s + b.s) % 2))
    ELSE IF IsZero(a) THEN Zero((a.s + b.s) % 2)
    ELSE F64_Quot((a.s + b.s) % 2, a.m, b.m, a.e - b.e)

\* -1, 0, 1 as |a| < |b|, |a| = |b|, |a| > |b|, for a and b not NaN
F64_CmpMag(a, b) ==
    IF IsInf(a) THEN (IF IsInf(b) THEN 0 ELSE 1)
    ELSE IF IsInf(b) THEN -1
    ELSE IF a.m = <<>> \/ b.m = <<>>
         THEN (IF a.m = b.m THEN 0 ELSE IF a.m = <<>> THEN -1 ELSE 1)
    ELSE IF a.e # b.e THEN (IF a.e < b.e THEN -1 ELSE 1)
    ELSE BN_Cmp(a.m, b.m)

\* -1, 0, 1 as a < b, a = b, a > b, and 2 when an operand is a NaN; -0.0 = 0.0
F64_Cmp(a, b) ==
    IF IsNaN(a) \/ IsNaN(b) THEN 2
    ELSE IF IsZero(a) /\ IsZero(b) THEN 0
    ELSE IF a.s # b.s THEN (IF a.s = 1 THEN -1 ELSE 1)
    ELSE IF a.s = 0 THEN F64_CmpMag(a, b)
    ELSE 0 - F64_CmpMag(a, b)

\* The comparison operators: each is false when an operand is a NaN
F64_Lt(a, b) == F64_Cmp(a, b) = -1
F64_Gt(a, b) == F64_Cmp(a, b) = 1
\* <= and >= are not used by the crate; the claims state closed ranges with them
F64_Le(a, b) == F64_Cmp(a, b) \in {-1, 0}
F64_Ge(a, b) == F64_Cmp(a, b) \in {0, 1}
F64_Eq(a, b) == F64_Cmp(a, b) = 0

F64_Abs(a) == IF IsNaN(a) THEN a ELSE [a EXCEPT !.s = 0]

\* A decimal literal: the digits ds read as a natural number, divided by
\* 10^scale, rounded to the nearest f64 as the compiler rounds it.
RECURSIVE BN_FromDigits(_, _, _)
BN_FromDigits(ds, i, acc) ==
    IF i > Len(ds) THEN acc
    ELSE BN_FromDigits(ds, i + 1, BN_Add(BN_MulLimb(acc, 10), BN_FromNat(ds[i])))

RECURSIVE BN_Pow10(_)
BN_Pow10(n) == IF n = 0 THEN <<1>> ELSE BN_MulLimb(BN_Pow10(n - 1), 10)

Dec(ds, scale) ==
    LET n == BN_FromDigits(ds, 1, <<>>)
    IN  IF n = <<>> THEN Zero(0) ELSE F64_Quot(0, n, BN_Pow10(scale), 0)
(***************************************************************************)
(* The f64 literals of src/src/lib.rs, each rounded from its decimal text.   *)
(***************************************************************************)
K3600 == Dec(<<3, 6, 0, 0, 0>>, 1)
K169028_66 == Dec(<<1, 6, 9, 0, 2, 8, 6, 6>>, 2)
K10000 == Dec(<<1, 0, 0, 0, 0, 0>>, 1)
K26782_5 == Dec(<<2, 6, 7, 8, 2, 5>>, 1)
K2600072_37 == Dec(<<2, 6, 0, 0, 0, 7, 2, 3, 7>>, 2)
K211455_93 == Dec(<<2, 1, 1, 4, 5, 5, 9, 3>>, 2)
K10938_51 == Dec(<<1, 0, 9, 3, 8, 5, 1>>, 2)
K0_36 == Dec(<<0, 3, 6>>, 2)
K44_54 == Dec(<<4, 4, 5, 4>>, 2)
K1200147_07 == Dec(<<1, 2, 0, 0, 1, 4, 7, 0, 7>>, 2)
K308807_95 == Dec(<<3, 0, 8, 8, 0, 7, 9, 5>>, 2)
K3745_25 == Dec(<<3, 7, 4, 5, 2, 5>>, 2)
K76_63 == Dec(<<7, 6, 6, 3>>, 2)
K194_56 == Dec(<<1, 9, 4, 5, 6>>, 2)
K119_79 == Dec(<<1, 1, 9, 7, 9>>, 2)
K2000000 == Dec(<<2, 0, 0, 0, 0, 0, 0, 0, 0>>, 2)
K1000000 == Dec(<<1, 0, 0, 0, 0, 0, 0, 0, 0>>, 2)
K49_55 == Dec(<<4, 9, 5, 5>>, 2)
K2_73 == Dec(<<2, 7, 3>>, 2)
K6_94 == Dec(<<6, 9, 4>>, 2)
K70000 == Dec(<<7, 0, 0, 0, 0, 0>>, 1)
K480000 == Dec(<<4, 8, 0, 0, 0, 0, 0>>, 1)
K300000 == Dec(<<3, 0, 0, 0, 0, 0, 0>>, 1)
K850000 == Dec(<<8, 5, 0, 0, 0, 0, 0>>, 1)
K600000 == Dec(<<6, 0, 0, 0, 0, 0, 0>>, 1)
K200000 == Dec(<<2, 0, 0, 0, 0, 0, 0>>, 1)
K2_6779094 == Dec(<<2, 6, 7, 7, 9, 0, 9, 4>>, 7)
K4_728982 == Dec(<<4, 7, 2, 8, 9, 8, 2>>, 6)
K0_791484 == Dec(<<0, 7, 9, 1, 4, 8, 4>>, 6)
K0_1306 == Dec(<<0, 1, 3, 0, 6>>, 4)
K0_0436 == Dec(<<0, 0, 4, 3, 6>>, 4)
K16_9023892 == Dec(<<1, 6, 9, 0, 2, 3, 8, 9, 2>>, 7)
K3_238272 == Dec(<<3, 2, 3, 8, 2, 7, 2>>, 6)
K0_270978 == Dec(<<0, 2, 7, 0, 9, 7, 8>>, 6)
K0_002528 == Dec(<<0, 0, 0, 2, 5, 2, 8>>, 6)
K0_0447 == Dec(<<0, 0, 4, 4, 7>>, 4)
K0_0140 == Dec(<<0, 0, 1, 4, 0>>, 4)
K12_6 == Dec(<<1, 2, 6>>, 1)
K22_64 == Dec(<<2, 2, 6, 4>>, 2)
K100 == Dec(<<1, 0, 0, 0>>, 1)
K36 == Dec(<<3, 6, 0>>, 1)

None == <<>>
Some(v) == <<v>>

(***************************************************************************)
(* The three value types and their operations.                             *)
(***************************************************************************)
Wgs84(longitude, latitude, altitude) ==
    [longitude |-> longitude, latitude |-> latitude, altitude |-> altitude]

Lv03(north, east, altitude) == [north |-> north, east |-> east, altitude |-> altitude]

Lv95(north, east, altitude) == [north |-> north, east |-> east, altitude |-> altitude]

\* #[derive(PartialEq)] of Lv03 and of Lv95: == compares field by field, so a
\* value with a NaN field is not == to itself
Lv03_eq(a, b) ==
    F64_Eq(a.north, b.north) /\ F64_Eq(a.east, b.east) /\ F64_Eq(a.altitude, b.altitude)

\* Lv03::new with a defect, under which C1 must fail: the lower bounds reject the
\* bound itself (<= written for <)
Lv03_new_exclusive(north, east, altitude) ==
    IF F64_Le(north, K70000) \/ F64_Le(east, K480000) THEN None
    ELSE IF F64_Gt(north, K300000) \/ F64_Gt(east, K850000) THEN None
    ELSE IF F64_Gt(north, east) THEN None
    ELSE Some(Lv03(north, east, altitude))

Lv03_new(north, east, altitude) ==
    IF F64_Lt(north, K70000) \/ F64_Lt(east, K480000) THEN None
    ELSE IF F64_Gt(north, K300000) \/ F64_Gt(east, K850000) THEN None
    ELSE IF F64_Gt(north, east) THEN None
    ELSE Some(Lv03(north, east, altitude))

\* Wgs84::to_lv03.  Each let of the function is an operator over the lets it
\* reads.  An operator with a suffix _from binds the lets of one group of
\* lines, each to its value (the one element of a singleton set), and passes
\* them on, so that every let is computed once, in the order of the source.
\* Wgs84::to_lv03 with a defect, under which C7 must fail: phi read from the longitude
Wgs84_to_lv03_phi_of_longitude(self) ==
    F64_Div(F64_Sub(F64_Mul(K3600, self.longitude), K169028_66), K10000)

Wgs84_to_lv03_phi(self) ==
    F64_Div(F64_Sub(F64_Mul(K3600, self.latitude), K169028_66), K10000)

Wgs84_to_lv03_lambda(self) ==
    F64_Div(F64_Sub(F64_Mul(K3600, self.longitude), K26782_5), K10000)

Wgs84_to_lv03_e(phi, phi_2, lambda, lambda_3) ==
    F64_Sub(F64_Sub(F64_Sub(F64_Add(K2600072_37, F64_Mul(K211455_93, lambda)),
                            F64_Mul(F64_Mul(K10938_51, lambda), phi)),
                    F64_Mul(F64_Mul(K0_36, lambda), phi_2)),
            F64_Mul(K44_54, lambda_3))

Wgs84_to_lv03_n(phi, phi_2, phi_3, lambda_2) ==
    F64_Add(F64_Sub(F64_Add(F64_Add(F64_Add(K1200147_07, F64_Mul(K308807_95, phi)),
                                    F64_Mul(K3745_25, lambda_2)),
                            F64_Mul(K76_63, phi_2)),
                    F64_Mul(F64_Mul(K194_56, lambda_2), phi)),
            F64_Mul(K119_79, phi_3))

Wgs84_to_lv03_altitude(self, phi, lambda) ==
    F64_Add(F64_Add(F64_Sub(self.altitude, K49_55), F64_Mul(K2_73, lambda)),
            F64_Mul(K6_94, phi))

\* The lets y, x and altitude, the arguments of the final Lv03::new
Wgs84_to_lv03_args(e, n, altitude) ==
    [x |-> F64_Sub(n, K1000000), y |-> F64_Sub(e, K2000000), altitude |-> altitude]

Wgs84_to_lv03_from_cubes(self, phi, phi_2, phi_3, lambda, lambda_2, lambda_3) ==
    Wgs84_to_lv03_args(Wgs84_to_lv03_e(phi, phi_2, lambda, lambda_3),
                       Wgs84_to_lv03_n(phi, phi_2, phi_3, lambda_2),
                       Wgs84_to_lv03_altitude(self, phi, lambda))

Wgs84_to_lv03_from_squares(self, phi, phi_2, lambda, lambda_2) ==
    CHOOSE l \in {Wgs84_to_lv03_from_cubes(self, phi, phi_2, phi_3, lambda, lambda_2, lambda_3) :
                    phi_3 \in {F64_Mul(phi, phi_2)},
                    lambda_3 \in {F64_Mul(lambda, lambda_2)}} : TRUE

Wgs84_to_lv03_from(self, phi, lambda) ==
    CHOOSE l \in {Wgs84_to_lv03_from_squares(self, phi, phi_2, lambda, lambda_2) :
                    phi_2 \in {F64_Mul(phi, phi)},
                    lambda_2 \in {F64_Mul(lambda, lambda)}} : TRUE

Wgs84_to_lv03_locals(self) ==
    CHOOSE l \in {Wgs84_to_lv03_from(self, phi, lambda) :
                    phi \in {Wgs84_to_lv03_phi(self)},
                    lambda \in {Wgs84_to_lv03_lambda(self)}} : TRUE

\* Wgs84::to_lv03 with a defect, under which C2 must fail: x and y passed to Lv03::new
\* in the order (east, north)
Wgs84_to_lv03_return_swapped(l) == Lv03_new(l.y, l.x, l.altitude)

Wgs84_to_lv03_return(l) == Lv03_new(l.x, l.y, l.altitude)

Wgs84_to_lv03(self) == Wgs84_to_lv03_return(Wgs84_to_lv03_locals(self))

\* Lv03::to_wgs84, in the same form
Lv03_to_wgs84_y(self) == F64_Div(F64_Sub(self.east, K600000), K1000000)

Lv03_to_wgs84_x(self) == F64_Div(F64_Sub(self.north, K200000), K1000000)

Lv03_to_wgs84_lambda(y, y_3, x, x_2) ==
    F64_Sub(F64_Add(F64_Add(F64_Add(K2_6779094, F64_Mul(K4_728982, y)),
                            F64_Mul(F64_Mul(K0_791484, y), x)),
                    F64_Mul(F64_Mul(K0_1306, y), x_2)),
            F64_Mul(K0_0436, y_3))

Lv03_to_wgs84_phi(y_2, x, x_2, x_3) ==
    F64_Sub(F64_Sub(F64_Sub(F64_Sub(F64_Add(K16_9023892, F64_Mul(K3_238272, x)),
                                    F64_Mul(K0_270978, y_2)),
                            F64_Mul(K0_002528, x_2)),
                    F64_Mul(F64_Mul(K0_0447, y_2), x)),
            F64_Mul(K0_0140, x_3))

Lv03_to_wgs84_altitude(self, y, x) ==
    F64_Sub(F64_Sub(F64_Add(self.altitude, K49_55), F64_Mul(K12_6, y)),
            F64_Mul(K22_64, x))

\* Lv03::to_wgs84 with a defect, under which C6 must fail: lambda and phi returned
\* without the factor 100 / 36
Lv03_to_wgs84_return_unscaled(lambda, phi, altitude) == Wgs84(lambda, phi, altitude)

\* The second lets of lambda and phi, and the struct returned
Lv03_to_wgs84_return(lambda, phi, altitude) ==
    Wgs84(F64_Div(F64_Mul(lambda, K100), K36), F64_Div(F64_Mul(phi, K100), K36), altitude)

Lv03_to_wgs84_from_cubes(self, y, y_2, y_3, x, x_2, x_3) ==
    Lv03_to_wgs84_return(Lv03_to_wgs84_lambda(y, y_3, x, x_2),
                         Lv03_to_wgs84_phi(y_2, x, x_2, x_3),
                         Lv03_to_wgs84_altitude(self, y, x))

Lv03_to_wgs84_from_squares(self, y, y_2, x, x_2) ==
    CHOOSE w \in {Lv03_to_wgs84_from_cubes(self, y, y_2, y_3, x, x_2, x_3) :
                    y_3 \in {F64_Mul(y, y_2)}, x_3 \in {F64_Mul(x, x_2)}} : TRUE

Lv03_to_wgs84_from(self, y, x) ==
    CHOOSE w \in {Lv03_to_wgs84_from_squares(self, y, y_2, x, x_2) :
                    y_2 \in {F64_Mul(y, y)}, x_2 \in {F64_Mul(x, x)}} : TRUE

Lv03_to_wgs84(self) ==
    CHOOSE w \in {Lv03_to_wgs84_from(self, y, x) :
                    y \in {Lv03_to_wgs84_y(self)}, x \in {Lv03_to_wgs84_x(self)}} : TRUE

\* Lv03::distance_squared with a defect, under which C9 must fail: the altitude term
\* left out
Lv03_distance_squared_planar(d_north, d_east, d_altitude) ==
    F64_Add(F64_Mul(d_north, d_north), F64_Mul(d_east, d_east))

Lv03_distance_squared_of(d_north, d_east, d_altitude) ==
    F64_Add(F64_Add(F64_Mul(d_north, d_north), F64_Mul(d_east, d_east)),
            F64_Mul(d_altitude, d_altitude))

Lv03_distance_squared(self, p) ==
    Lv03_distance_squared_of(F64_Sub(self.north, p.north), F64_Sub(self.east, p.east),
                             F64_Sub(self.altitude, p.altitude))

\* From<Lv95> for Lv03 with a defect, under which C4 must fail: the two offsets
\* exchanged
Lv03_from_Lv95_exchanged(p) ==
    Lv03(F64_Sub(p.north, K2000000), F64_Sub(p.east, K1000000), p.altitude)

\* impl From<Lv95> for Lv03
Lv03_from_Lv95(p) ==
    Lv03(F64_Sub(p.north, K1000000), F64_Sub(p.east, K2000000), p.altitude)

\* From<Lv03> for Lv95 with a defect, under which C5 must fail: the altitude shifted
\* with the north
Lv95_from_Lv03_lifted(p) ==
    Lv95(F64_Add(p.north, K1000000), F64_Add(p.east, K2000000),
         F64_Add(p.altitude, K1000000))

\* impl From<Lv03> for Lv95
Lv95_from_Lv03(p) ==
    Lv95(F64_Add(p.north, K1000000), F64_Add(p.east, K2000000), p.altitude)

\* The match of Lv95::new on the Option that Lv03::new returned
Lv95_new_match(p) == IF p # None THEN Some(Lv95_from_Lv03(p[1])) ELSE None

Lv95_new(north, east, altitude) == Lv95_new_match(Lv03_new(north, east, altitude))

\* Lv95::to_wgs84 with a defect, under which C8 must fail: the formula applied to the
\* Lv95 coordinates without the shift to Lv03
Lv95_to_wgs84_unshifted(self) == Lv03_to_wgs84(self)

Lv95_to_wgs84(self) == Lv03_to_wgs84(Lv03_from_Lv95(self))

\* impl From<Lv03> for Wgs84
Wgs84_from_Lv03(p) == Lv03_to_wgs84(p)

\* impl From<Lv95> for Wgs84
Wgs84_from_Lv95(p) == Lv95_to_wgs84(p)

(***************************************************************************)
(* The caller: raw numbers go into a constructor (or a Wgs84 is written as *)
(* a struct literal, as the crate's tests do), and each further call takes *)
(* the value the previous call returned.  path lists the calls made, vals  *)
(* the value each returned, raw the constructor's arguments, and other the *)
(* second argument of distance_squared.                                    *)
(***************************************************************************)
VARIABLES raw, path, vals, other

vars == <<raw, path, vals, other>>

MaxSteps == 4

K1 == Dec(<<1>>, 0)
K2 == Dec(<<2>>, 0)
K5 == Dec(<<5>>, 0)
K500 == Dec(<<5, 0, 0>>, 0)
K542_8 == Dec(<<5, 4, 2, 8>>, 1)
K100000 == Dec(<<1, 0, 0, 0, 0, 0>>, 0)
K199498_43 == Dec(<<1, 9, 9, 4, 9, 8, 4, 3>>, 2)
K200002 == Dec(<<2, 0, 0, 0, 0, 2>>, 0)
K250000 == Dec(<<2, 5, 0, 0, 0, 0>>, 0)
K500000 == Dec(<<5, 0, 0, 0, 0, 0>>, 0)
K600421_43 == Dec(<<6, 0, 0, 4, 2, 1, 4, 3>>, 2)
K700000 == Dec(<<7, 0, 0, 0, 0, 0>>, 0)
K7_44417 == Dec(<<7, 4, 4, 4, 1, 7>>, 5)
K46_94658 == Dec(<<4, 6, 9, 4, 6, 5, 8>>, 5)
K8_730497076 == Dec(<<8, 7, 3, 0, 4, 9, 7, 0, 7, 6>>, 9)
K46_044130339 == Dec(<<4, 6, 0, 4, 4, 1, 3, 0, 3, 3, 9>>, 9)
K0_001 == Dec(<<0, 0, 0, 1>>, 3)
K4 == Dec(<<4>>, 0)

\* The raw numbers a caller passes: the bounds of the box and values just
\* outside them, the points of the crate's tests, a NaN and an infinity.
NorthInputs ==
    {F64_Neg(K1), K1, Dec(<<6, 9, 9, 9, 9, 9, 9>>, 2), K70000, K100000, K199498_43,
     K200000, K200002, K250000, K300000, Dec(<<3, 0, 0, 0, 0, 0, 0, 1>>, 2), K600000,
     NaN, Inf(0)}

EastInputs ==
    {F64_Neg(K2), K2, K200000, Dec(<<4, 7, 9, 9, 9, 9, 9, 9>>, 2), K480000, K500000,
     K600000, K600421_43, K700000, K850000, Dec(<<8, 5, 0, 0, 0, 0, 0, 1>>, 2),
     NaN, Inf(0)}

AltitudeInputs == {K500, K542_8, K5, F64_Neg(K5), NaN, Inf(0)}

PointInputs ==
    {<<K200000, K600000>>, <<K200002, K600000>>, <<K250000, K500000>>,
     <<K199498_43, K600421_43>>, <<K100000, K700000>>}

RawInputs ==
    {Lv03(n, e, K500) : n \in NorthInputs, e \in EastInputs}
    \cup {Lv03(ne[1], ne[2], a) : ne \in PointInputs, a \in AltitudeInputs}

\* The Wgs84 struct literals of tests::to_lv03_bundeshaus and tests::to_wgs84_700_100
RefWgs84 ==
    {Wgs84(K7_44417, K46_94658, K542_8), Wgs84(K8_730497076, K46_044130339, K542_8)}

\* The second points of tests::test_distance
OtherPoints == {Lv03(K200000, K600000, K500), Lv03(K200002, K600000, K500)}

Produces(op) ==
    CASE op \in {"Lv03::new", "Wgs84::to_lv03", "Lv03::from(Lv95)"} -> "Lv03"
      [] op \in {"Lv95::new", "Lv95::from(Lv03)"} -> "Lv95"
      [] op \in {"Wgs84 {..}", "Lv03::to_wgs84", "Lv95::to_wgs84",
                 "Wgs84::from(Lv03)", "Wgs84::from(Lv95)"} -> "Wgs84"
      [] OTHER -> "f64"

Cur == vals[Len(vals)]

\* The caller holds a value of the type, returned by the last call
Holds(type) == path # <<>> /\ Produces(path[Len(path)]) = type /\ Cur # None

Push(op, v) == path' = Append(path, op) /\ vals' = Append(vals, v)

\* The Lv03 values returned so far
Lv03Values ==
    {vals[i][1] : i \in {j \in 1..Len(vals) : Produces(path[j]) = "Lv03" /\ vals[j] # None}}

Init == raw = None /\ path = <<>> /\ vals = <<>> /\ other = None

CallLv03New ==
    \E r \in RawInputs :
        /\ path = <<>>
        /\ raw' = Some(r)
        /\ Push("Lv03::new", Lv03_new(r.north, r.east, r.altitude))
        /\ UNCHANGED other

CallLv95New ==
    \E r \in RawInputs :
        /\ path = <<>>
        /\ raw' = Some(r)
        /\ Push("Lv95::new", Lv95_new(r.north, r.east, r.altitude))
        /\ UNCHANGED other

Wgs84Literal ==
    \E w \in RefWgs84 :
        /\ path = <<>>
        /\ Push("Wgs84 {..}", Some(w))
        /\ UNCHANGED <<raw, other>>

CallWgs84ToLv03 ==
    /\ Len(path) < MaxSteps
    /\ Holds("Wgs84")
    /\ Push("Wgs84::to_lv03", Wgs84_to_lv03(Cur[1]))
    /\ UNCHANGED <<raw, other>>

CallLv03ToWgs84 ==
    /\ Len(path) < MaxSteps
    /\ Holds("Lv03")
    /\ Push("Lv03::to_wgs84", Some(Lv03_to_wgs84(Cur[1])))
    /\ UNCHANGED <<raw, other>>

CallLv95ToWgs84 ==
    /\ Len(path) < MaxSteps
    /\ Holds("Lv95")
    /\ Push("Lv95::to_wgs84", Some(Lv95_to_wgs84(Cur[1])))
    /\ UNCHANGED <<raw, other>>

CallLv03FromLv95 ==
    /\ Len(path) < MaxSteps
    /\ Holds("Lv95")
    /\ Push("Lv03::from(Lv95)", Some(Lv03_from_Lv95(Cur[1])))
    /\ UNCHANGED <<raw, other>>

CallLv95FromLv03 ==
    /\ Len(path) < MaxSteps
    /\ Holds("Lv03")
    /\ Push("Lv95::from(Lv03)", Some(Lv95_from_Lv03(Cur[1])))
    /\ UNCHANGED <<raw, other>>

CallWgs84FromLv03 ==
    /\ Len(path) < MaxSteps
    /\ Holds("Lv03")
    /\ Push("Wgs84::from(Lv03)", Some(Wgs84_from_Lv03(Cur[1])))
    /\ UNCHANGED <<raw, other>>

CallWgs84FromLv95 ==
    /\ Len(path) < MaxSteps
    /\ Holds("Lv95")
    /\ Push("Wgs84::from(Lv95)", Some(Wgs84_from_Lv95(Cur[1])))
    /\ UNCHANGED <<raw, other>>

CallDistanceSquared ==
    \E p \in Lv03Values \cup OtherPoints :
        /\ Len(path) < MaxSteps
        /\ Holds("Lv03")
        /\ other' = Some(p)
        /\ Push("Lv03::distance_squared", Some(Lv03_distance_squared(Cur[1], p)))
        /\ UNCHANGED raw

Next ==
    \/ CallLv03New
    \/ CallLv95New
    \/ Wgs84Literal
    \/ CallWgs84ToLv03
    \/ CallLv03ToWgs84
    \/ CallLv95ToWgs84
    \/ CallLv03FromLv95
    \/ CallLv95FromLv03
    \/ CallWgs84FromLv03
    \/ CallWgs84FromLv95
    \/ CallDistanceSquared

Spec == Init /\ [][Next]_vars

(***************************************************************************)
(* The claims.  Each is stated over the calls a caller has made: Called(op) *)
(* says that op is the last call, Arg is the value it was made on, Ret the *)
(* Option it returned and Origin the value two calls back.                 *)
(***************************************************************************)
K0 == Zero(0)
K10 == Dec(<<1, 0>>, 0)
K0_000000001 == Dec(<<1>>, 9)
K1070000 == Dec(<<1, 0, 7, 0, 0, 0, 0>>, 0)
K1300000 == Dec(<<1, 3, 0, 0, 0, 0, 0>>, 0)
K2480000 == Dec(<<2, 4, 8, 0, 0, 0, 0>>, 0)
K2850000 == Dec(<<2, 8, 5, 0, 0, 0, 0>>, 0)
K1200000 == Dec(<<1, 2, 0, 0, 0, 0, 0>>, 0)
K2600000 == Dec(<<2, 6, 0, 0, 0, 0, 0>>, 0)

Called(op) == path # <<>> /\ path[Len(path)] = op

Ret == vals[Len(vals)]

Arg == vals[Len(vals) - 1][1]

Origin == vals[Len(vals) - 2][1]

\* The last two calls were a then b, made on a value of the type
CalledOn(type, a, b) ==
    /\ Len(path) >= 3
    /\ Produces(path[Len(path) - 2]) = type
    /\ path[Len(path) - 1] = a
    /\ path[Len(path)] = b

\* The first call was the constructor op
Constructed(op) == path # <<>> /\ path[1] = op

\* One of the three rejection tests of the validity check fires
Rejected(north, east) ==
    \/ F64_Lt(north, K70000) \/ F64_Lt(east, K480000)
    \/ F64_Gt(north, K300000) \/ F64_Gt(east, K850000)
    \/ F64_Gt(north, east)

\* north in [70000, 300000], east in [480000, 850000], north <= east
InBox(north, east) ==
    /\ F64_Ge(north, K70000) /\ F64_Le(north, K300000)
    /\ F64_Ge(east, K480000) /\ F64_Le(east, K850000)
    /\ F64_Le(north, east)

Valid(p) == InBox(p.north, p.east)

\* |a - b| < tol
Within(a, b, tol) == F64_Lt(F64_Abs(F64_Sub(a, b)), tol)

\* C1: Lv03::new returns None when north < 70000 or east < 480000, when
\* north > 300000 or east > 850000, or when north > east; when north is in
\* [70000, 300000], east in [480000, 850000] and north <= east it returns
\* Some of an Lv03 holding the three arguments, whatever the altitude.
C1_NewContract ==
    Constructed("Lv03::new") =>
        /\ Rejected(raw[1].north, raw[1].east) => vals[1] = None
        /\ InBox(raw[1].north, raw[1].east) =>
               vals[1] = Some(Lv03(raw[1].north, raw[1].east, raw[1].altitude))

\* Lv03::new was called with both lower bounds themselves and returned the
\* point
C1_Witness ==
    /\ Constructed("Lv03::new")
    /\ raw[1].north = K70000 /\ raw[1].east = K480000
    /\ vals[1] = Some(Lv03(K70000, K480000, K500))

\* C2: Wgs84::to_lv03 returns None exactly when the computed north = N - 1000000
\* and east = E - 2000000 fail the validity check, and otherwise Some of the
\* Lv03 holding that north, that east and the altitude
\* altitude_in - 49.55 + 2.73 * lambda + 6.94 * phi.
C2_ToLv03Contract ==
    Called("Wgs84::to_lv03") =>
        LET l == Wgs84_to_lv03_locals(Arg)
            altitude == F64_Add(F64_Add(F64_Sub(Arg.altitude, K49_55),
                                        F64_Mul(K2_73, Wgs84_to_lv03_lambda(Arg))),
                                F64_Mul(K6_94, Wgs84_to_lv03_phi(Arg)))
        IN  /\ Ret = None <=> Rejected(l.x, l.y)
            /\ Ret # None => Ret[1] = Lv03(l.x, l.y, altitude)

\* Wgs84::to_lv03 took its error path on a Wgs84 whose computed pair is finite
C2_Witness ==
    /\ Called("Wgs84::to_lv03")
    /\ Ret = None
    /\ IsFin(Wgs84_to_lv03_locals(Arg).x) /\ IsFin(Wgs84_to_lv03_locals(Arg).y)

\* C3: Lv95::new returns None exactly when the validity check fails on its
\* arguments, and every Lv95 it returns has north in [1070000, 1300000], east
\* in [2480000, 2850000] and the altitude of the argument.
C3_Lv95NewContract ==
    Constructed("Lv95::new") =>
        /\ vals[1] = None <=> Rejected(raw[1].north, raw[1].east)
        /\ vals[1] # None =>
               /\ F64_Ge(vals[1][1].north, K1070000) /\ F64_Le(vals[1][1].north, K1300000)
               /\ F64_Ge(vals[1][1].east, K2480000) /\ F64_Le(vals[1][1].east, K2850000)
               /\ vals[1][1].altitude = raw[1].altitude

\* C4, as the specification states it: for every valid Lv03 p, p to Lv95 and
\* back to Lv03 is within a squared distance of 0.001 of p; for every Lv95 q
\* from Lv95::new or from an Lv03, q to Lv03 and back to Lv95 is q.
C4_ShiftInverse ==
    /\ CalledOn("Lv03", "Lv95::from(Lv03)", "Lv03::from(Lv95)") /\ Valid(Origin) =>
           F64_Lt(Lv03_distance_squared(Origin, Ret[1]), K0_001)
    /\ CalledOn("Lv95", "Lv03::from(Lv95)", "Lv95::from(Lv03)") => Ret[1] = Origin

\* C4, amended: the squared distance is < 0.001 when the altitude of p is
\* finite and is NaN when it is NaN or infinite; the Lv95 round trip returns
\* the fields of q bit for bit, and a value == q when no field of q is NaN.
C4_ShiftInverseFinite ==
    /\ CalledOn("Lv03", "Lv95::from(Lv03)", "Lv03::from(Lv95)") /\ Valid(Origin) =>
           /\ IsFin(Origin.altitude) =>
                  F64_Lt(Lv03_distance_squared(Origin, Ret[1]), K0_001)
           /\ ~IsFin(Origin.altitude) => IsNaN(Lv03_distance_squared(Origin, Ret[1]))
    /\ CalledOn("Lv95", "Lv03::from(Lv95)", "Lv95::from(Lv03)") =>
           /\ Ret[1] = Origin
           /\ (~IsNaN(Origin.north) /\ ~IsNaN(Origin.east) /\ ~IsNaN(Origin.altitude)) =>
                  Lv03_eq(Ret[1], Origin)

\* A valid p with a finite altitude went to Lv95 and back and came back with
\* another north than it had, at a squared distance below 0.001
C4_Witness ==
    /\ CalledOn("Lv03", "Lv95::from(Lv03)", "Lv03::from(Lv95)")
    /\ Valid(Origin) /\ IsFin(Origin.altitude)
    /\ Ret[1].north # Origin.north
    /\ F64_Lt(Lv03_distance_squared(Origin, Ret[1]), K0_001)

\* C5: Lv95::from(p) has north = p.north + 1000000, east = p.east + 2000000
\* and the altitude of p; Lv03::from(q) has north = q.north - 1000000,
\* east = q.east - 2000000 and the altitude of q.  For p = (200000, 600000,
\* 500) of tests::test_lv_conversion that is (1200000, 2600000, 500).
C5_ShiftOffsets ==
    /\ Called("Lv95::from(Lv03)") =>
           /\ Ret[1].north = F64_Add(Arg.north, K1000000)
           /\ Ret[1].east = F64_Add(Arg.east, K2000000)
           /\ Ret[1].altitude = Arg.altitude
           /\ Arg = Lv03(K200000, K600000, K500) => Ret[1] = Lv95(K1200000, K2600000, K500)
    /\ Called("Lv03::from(Lv95)") =>
           /\ Ret[1].north = F64_Sub(Arg.north, K1000000)
           /\ Ret[1].east = F64_Sub(Arg.east, K2000000)
           /\ Ret[1].altitude = Arg.altitude
           /\ Arg = Lv95(K1200000, K2600000, K500) => Ret[1] = Lv03(K200000, K600000, K500)

\* The point of tests::test_lv_conversion was converted to Lv95
C5_Witness ==
    /\ Called("Lv95::from(Lv03)")
    /\ Arg = Lv03(K200000, K600000, K500)
    /\ Ret[1].north = K1200000

\* C6, as the specification states it: for every valid Lv03 p, the edges of
\* the box included, p.to_wgs84().to_lv03() is Some of a point at a squared
\* distance < 1.0 of p.
C6_RoundTrip ==
    CalledOn("Lv03", "Lv03::to_wgs84", "Wgs84::to_lv03") /\ Valid(Origin) =>
        Ret # None /\ F64_Lt(Lv03_distance_squared(Ret[1], Origin), K1)

\* The middle of the box, where the round trip stays below one metre
Central(p) ==
    /\ F64_Ge(p.north, K100000) /\ F64_Le(p.north, K250000)
    /\ F64_Ge(p.east, K600000) /\ F64_Le(p.east, K700000)
    /\ F64_Le(F64_Abs(p.altitude), K10000)

\* C6, amended: for every Lv03 p with north in [100000, 250000], east in
\* [600000, 700000] and |altitude| <= 10000, p.to_wgs84().to_lv03() is Some of
\* a point at a squared distance < 1.0 of p.  Outside it the result can be
\* None, as for (70000, 480000, 500), or further away, as for (250000, 480000,
\* 500) at a squared distance above 10.
C6_RoundTripCentral ==
    CalledOn("Lv03", "Lv03::to_wgs84", "Wgs84::to_lv03") =>
        /\ Central(Origin) =>
               Ret # None /\ F64_Lt(Lv03_distance_squared(Ret[1], Origin), K1)
        /\ Origin = Lv03(K70000, K480000, K500) => Ret = None
        /\ Origin = Lv03(K250000, K480000, K500) =>
               Ret # None /\ F64_Gt(Lv03_distance_squared(Ret[1], Origin), K10)

\* The corner (250000, 600000, 500) of the middle of the box made the round
\* trip
C6_Witness ==
    /\ CalledOn("Lv03", "Lv03::to_wgs84", "Wgs84::to_lv03")
    /\ Origin = Lv03(K250000, K600000, K500)
    /\ Ret # None

\* The reference pairs of tests::to_lv03_bundeshaus and tests::to_wgs84_700_100
RefPairs ==
    {<<Lv03(K199498_43, K600421_43, K542_8), Wgs84(K7_44417, K46_94658, K542_8)>>,
     <<Lv03(K100000, K700000, K542_8), Wgs84(K8_730497076, K46_044130339, K542_8)>>}

\* C7: for each reference pair, to_wgs84() of the Lv03 point is within 0.001
\* degrees of the Wgs84 reference in longitude and in latitude, and to_lv03()
\* of the Wgs84 reference is Some of a point within 2 metres of the Lv03
\* reference in east and in north.
C7_ReferencePairs ==
    \A pair \in RefPairs :
        /\ Called("Lv03::to_wgs84") /\ Arg = pair[1] =>
               /\ Within(Ret[1].longitude, pair[2].longitude, K0_001)
               /\ Within(Ret[1].latitude, pair[2].latitude, K0_001)
        /\ Called("Wgs84::to_lv03") /\ Arg = pair[2] =>
               /\ Ret # None
               /\ Within(Ret[1].east, pair[1].east, K2)
               /\ Within(Ret[1].north, pair[1].north, K2)

\* to_lv03() of the first Wgs84 reference returned a north more than one
\* metre, and less than two, from the reference
C7_Witness ==
    /\ Called("Wgs84::to_lv03")
    /\ Arg = Wgs84(K7_44417, K46_94658, K542_8)
    /\ Ret # None
    /\ ~Within(Ret[1].north, K199498_43, K1)
    /\ Within(Ret[1].north, K199498_43, K2)

\* C8, as the specification states it: q.to_wgs84() is
\* Lv03::from(q).to_wgs84() for every Lv95 q; Lv95::from(p).to_wgs84() is
\* p.to_wgs84() for every valid Lv03 p; Wgs84::from gives what to_wgs84 gives.
C8_Lv95ViaLv03 ==
    /\ Called("Lv95::to_wgs84") => Ret[1] = Lv03_to_wgs84(Lv03_from_Lv95(Arg))
    /\ CalledOn("Lv03", "Lv95::from(Lv03)", "Lv95::to_wgs84") /\ Valid(Origin) =>
           Ret[1] = Lv03_to_wgs84(Origin)
    /\ Called("Wgs84::from(Lv03)") => Ret[1] = Lv03_to_wgs84(Arg)
    /\ Called("Wgs84::from(Lv95)") => Ret[1] = Lv95_to_wgs84(Arg)

\* Two f64 are the same value, or less than 0.000000001 apart
Close(a, b) == a = b \/ Within(a, b, K0_000000001)

\* C8, amended: Lv95::from(p).to_wgs84() is p.to_wgs84() when the shift to
\* Lv95 and back returns p, and otherwise each of its fields is within
\* 0.000000001 of the field of p.to_wgs84(); the rest as stated.
C8_Lv95ViaLv03Rounded ==
    /\ Called("Lv95::to_wgs84") => Ret[1] = Lv03_to_wgs84(Lv03_from_Lv95(Arg))
    /\ CalledOn("Lv03", "Lv95::from(Lv03)", "Lv95::to_wgs84") /\ Valid(Origin) =>
           /\ Lv03_from_Lv95(Arg) = Origin => Ret[1] = Lv03_to_wgs84(Origin)
           /\ Close(Ret[1].longitude, Lv03_to_wgs84(Origin).longitude)
           /\ Close(Ret[1].latitude, Lv03_to_wgs84(Origin).latitude)
           /\ Close(Ret[1].altitude, Lv03_to_wgs84(Origin).altitude)
    /\ Called("Wgs84::from(Lv03)") => Ret[1] = Lv03_to_wgs84(Arg)
    /\ Called("Wgs84::from(Lv95)") => Ret[1] = Lv95_to_wgs84(Arg)

\* Lv95::from(p).to_wgs84() returned another Wgs84 than p.to_wgs84() for a
\* valid p
C8_Witness ==
    /\ CalledOn("Lv03", "Lv95::from(Lv03)", "Lv95::to_wgs84")
    /\ Valid(Origin)
    /\ Ret[1] # Lv03_to_wgs84(Origin)

\* The sum of squares that distance_squared is said to return
SumOfSquares(p, q) ==
    F64_Add(F64_Add(F64_Mul(F64_Sub(p.north, q.north), F64_Sub(p.north, q.north)),
                    F64_Mul(F64_Sub(p.east, q.east), F64_Sub(p.east, q.east))),
            F64_Mul(F64_Sub(p.altitude, q.altitude), F64_Sub(p.altitude, q.altitude)))

\* C9, as the specification states it: p.distance_squared(q) is
\* (p.north - q.north)^2 + (p.east - q.east)^2 + (p.altitude - q.altitude)^2,
\* is q.distance_squared(p), is 0 when p = q, is never negative, and is 4.0
\* for (200000, 600000, 500) and (200002, 600000, 500).
C9_Distance ==
    Called("Lv03::distance_squared") =>
        /\ Ret[1] = SumOfSquares(Arg, other[1])
        /\ Ret[1] = Lv03_distance_squared(other[1], Arg)
        /\ Lv03_eq(Arg, other[1]) => F64_Eq(Ret[1], K0)
        /\ ~F64_Lt(Ret[1], K0)
        /\ (Arg = Lv03(K200000, K600000, K500) /\ other[1] = Lv03(K200002, K600000, K500)) =>
               Ret[1] = K4

\* C9, amended: the distance of p to p == q is 0 when the altitude is finite
\* and NaN when it is infinite; the rest as stated.
C9_DistanceFinite ==
    Called("Lv03::distance_squared") =>
        /\ Ret[1] = SumOfSquares(Arg, other[1])
        /\ Ret[1] = Lv03_distance_squared(other[1], Arg)
        /\ (Lv03_eq(Arg, other[1]) /\ IsFin(Arg.altitude)) => F64_Eq(Ret[1], K0)
        /\ (Lv03_eq(Arg, other[1]) /\ IsInf(Arg.altitude)) => IsNaN(Ret[1])
        /\ ~F64_Lt(Ret[1], K0)
        /\ (Arg = Lv03(K200000, K600000, K500) /\ other[1] = Lv03(K200002, K600000, K500)) =>
               Ret[1] = K4

\* The two points of tests::test_distance were compared
C9_Witness ==
    /\ Called("Lv03::distance_squared")
    /\ Arg = Lv03(K200000, K600000, K500)
    /\ other[1] = Lv03(K200002, K600000, K500)
    /\ Ret[1] = K4

\* C10: every Lv03 value returned has north in [70000, 300000], east in
\* [480000, 850000] and north < east; every Lv95 value returned is the shift
\* of such an Lv03; the north > east test of Lv03::new rejects no input that
\* passed the two range tests.
C10_BoxInvariant ==
    /\ \A i \in 1..Len(vals) :
           /\ (Produces(path[i]) = "Lv03" /\ vals[i] # None) =>
                  Valid(vals[i][1]) /\ F64_Lt(vals[i][1].north, vals[i][1].east)
           /\ (Produces(path[i]) = "Lv95" /\ vals[i] # None) =>
                  /\ Valid(Lv03_from_Lv95(vals[i][1]))
                  /\ Lv95_from_Lv03(Lv03_from_Lv95(vals[i][1])) = vals[i][1]
    /\ Constructed("Lv03::new") =>
           ~(/\ ~F64_Lt(raw[1].north, K70000) /\ ~F64_Lt(raw[1].east, K480000)
             /\ ~F64_Gt(raw[1].north, K300000) /\ ~F64_Gt(raw[1].east, K850000)
             /\ F64_Gt(raw[1].north, raw[1].east))
====
